---- MODULE Spec2Model ----
(***************************************************************************)
(* Model of backend/app.py: the /transcribe request handler and the        *)
(* English -> ISL gloss mapper translate_to_isl_gloss.                     *)
(*                                                                         *)
(* Spec      : concurrent /transcribe requests sharing the temporary file  *)
(*             temp_audio/temp_recording.webm and the two startup models.  *)
(* SpecGloss : translate_to_isl_gloss applied to every annotated token     *)
(*             sequence up to MaxLen tokens of Vocabulary.                 *)
(***************************************************************************)
EXTENDS Integers, Sequences, FiniteSets, TLC

\* ---------------------------------------------------------------- bounds
MaxLen == 3
MaxDocLen == 1
MaxText == 1
NumRequests == 2

Requests == 1..NumRequests
NoFile == 0

VARIABLES
    nlp,            \* app.py:14-19  TRUE iff spacy.load succeeded
    whisper_model,  \* app.py:22-28  TRUE iff WhisperModel(...) succeeded
    file,           \* content of temp_audio/temp_recording.webm: NoFile or the uploading request
    pc,             \* per request: position in transcribe_audio
    field,          \* per request: state of the multipart field audio_data
    heard,          \* per request: whose audio whisper_model.transcribe read (NoFile: none)
    calls,          \* per request: the external calls made so far, in order
    transcribed_text, \* per request: the local transcribed_text (characters)
    isl_gloss,      \* per request: the local isl_gloss
    response,       \* per request: the (body, status) returned
    doc,            \* SpecGloss: the annotated tokens nlp(...) returned
    gloss,          \* SpecGloss: the local list gloss after the loop
    final_gloss,    \* SpecGloss: the value translate_to_isl_gloss returned
    g_pc            \* SpecGloss: "call" before the call, "returned" after

vars == <<nlp, whisper_model, file, pc, field, heard, calls, transcribed_text,
          isl_gloss, response, doc, gloss, final_gloss, g_pc>>
handlerVars == <<file, pc, field, heard, calls, transcribed_text, isl_gloss, response>>
glossVars == <<doc, gloss, final_gloss, g_pc>>

\* ------------------------------------------------------- annotated tokens
Token(t, l, p, d, s, u) ==
    [text |-> t, lemma_ |-> l, pos_ |-> p, dep_ |-> d, is_stop |-> s, is_punct |-> u]

\* Token texts are lower case: the annotator is fed text.strip().lower().
Vocabulary ==
    { Token("i",     "I",     "PRON",  "nsubj", TRUE,  FALSE),
      Token("not",   "not",   "PART",  "neg",   TRUE,  FALSE),
      Token("never", "never", "ADV",   "neg",   TRUE,  FALSE),
      Token("dont",  "do",    "VERB",  "aux",   FALSE, FALSE),
      Token("is",    "be",    "VERB",  "ROOT",  TRUE,  FALSE),
      Token("eats",  "eat",   "VERB",  "ROOT",  FALSE, FALSE),
      Token("food",  "food",  "NOUN",  "dobj",  FALSE, FALSE),
      Token("hi",    "hi",    "INTJ",  "intj",  FALSE, FALSE),
      Token("hi",    "hi",    "X",     "dep",   FALSE, FALSE),
      Token("an",    "a",     "DET",   "det",   TRUE,  FALSE),
      Token(".",     ".",     "PUNCT", "punct", FALSE, TRUE),
      Token(":)",    ":)",    "INTJ",  "intj",  FALSE, TRUE) }

SeqsUpTo(S, n) == UNION { [1..k -> S] : k \in 0..n }

TokenSeqs == SeqsUpTo(Vocabulary, MaxLen)
\* The request handler is explored with the annotations of short utterances
\* over three of the tokens; SpecGloss covers the whole Vocabulary.
HandlerVocabulary ==
    { t \in Vocabulary : t.text \in {"not", "."} \/ (t.text = "hi" /\ t.pos_ = "INTJ") }
HandlerDocs == SeqsUpTo(HandlerVocabulary, MaxDocLen) \ { <<>> }

\* str.upper() on the words of Vocabulary
upper(w) ==
    CASE w = "i"     -> "I"
      [] w = "I"     -> "I"
      [] w = "not"   -> "NOT"
      [] w = "never" -> "NEVER"
      [] w = "dont"  -> "DONT"
      [] w = "do"    -> "DO"
      [] w = "is"    -> "IS"
      [] w = "be"    -> "BE"
      [] w = "eats"  -> "EATS"
      [] w = "eat"   -> "EAT"
      [] w = "food"  -> "FOOD"
      [] w = "hi"    -> "HI"
      [] w = "an"    -> "AN"
      [] w = "a"     -> "A"
      [] OTHER       -> w

\* ------------------------------------------------ translate_to_isl_gloss
isl_synonym_map ==
    [k \in {"FOOD", "HOME", "MINE", "MYSELF", "HEY", "HI"} |->
        CASE k = "FOOD"   -> "EAT"
          [] k = "HOME"   -> "HOUSE"
          [] k = "MINE"   -> "MY"
          [] k = "MYSELF" -> "I"
          [] k = "HEY"    -> "HELLO"
          [] k = "HI"     -> "HELLO"]

important_pos_no_intj == {"NOUN", "PROPN", "VERB", "ADJ", "PRON", "ADV"}

important_pos == {"NOUN", "PROPN", "VERB", "ADJ", "INTJ", "PRON", "ADV"}

SpacyError == "Error: spaCy model not loaded."

\* the body of the for loop run on one token: what it appends to gloss
TokenGlossNoContinue(token) ==
    (IF token.dep_ = "neg" THEN <<"NOT">> ELSE <<>>) \o
    (IF token.pos_ \in important_pos /\ token.lemma_ # "be"
        THEN IF token.text = "dont" THEN <<"NOT">> ELSE <<upper(token.lemma_)>>
        ELSE <<>>)

TokenGlossSkipStop(token) ==
    IF token.dep_ = "neg" THEN <<"NOT">>
    ELSE IF token.pos_ \in important_pos /\ ~token.is_stop
         THEN IF token.lemma_ # "be"
              THEN IF token.text = "dont" THEN <<"NOT">> ELSE <<upper(token.lemma_)>>
              ELSE <<>>
         ELSE <<>>

TokenGloss(token) ==
    IF token.dep_ = "neg" THEN <<"NOT">>
    ELSE IF token.pos_ \in important_pos
         THEN IF token.lemma_ # "be"
              THEN IF token.text = "dont" THEN <<"NOT">> ELSE <<upper(token.lemma_)>>
              ELSE <<>>
         ELSE <<>>

\* for token in doc: ... ; acc is gloss before token i
RECURSIVE GlossLoop(_, _, _)
GlossLoop(d, i, acc) ==
    IF i > Len(d) THEN acc
    ELSE GlossLoop(d, i + 1, acc \o TokenGloss(d[i]))

RECURSIVE FallbackKeepsPunct(_)
FallbackKeepsPunct(d) ==
    IF d = <<>> THEN <<>>
    ELSE <<upper(Head(d).text)>> \o FallbackKeepsPunct(Tail(d))

\* [word.text.upper() for word in doc if not word.is_punct]
RECURSIVE Fallback(_)
Fallback(d) ==
    IF d = <<>> THEN <<>>
    ELSE (IF Head(d).is_punct THEN <<>> ELSE <<upper(Head(d).text)>>)
         \o Fallback(Tail(d))

\* [isl_synonym_map.get(word, word) for word in gloss]
ApplySynonyms(g) ==
    [i \in 1..Len(g) |->
        IF g[i] \in DOMAIN isl_synonym_map THEN isl_synonym_map[g[i]] ELSE g[i]]

\* d is the value of nlp(text.strip().lower())
translate_to_isl_gloss(d) ==
    IF ~nlp THEN <<SpacyError>>
    ELSE LET g == GlossLoop(d, 1, <<>>)
         IN  IF g = <<>> THEN Fallback(d) ELSE ApplySynonyms(g)

\* ------------------------------------------------------ transcribe_audio
Chars == {" ", "a"}
Texts == SeqsUpTo(Chars, MaxText)

RECURSIVE lstrip(_)
lstrip(t) == IF t # <<>> /\ Head(t) = " " THEN lstrip(Tail(t)) ELSE t

RECURSIVE rstrip(_)
rstrip(t) ==
    IF t # <<>> /\ t[Len(t)] = " " THEN rstrip(SubSeq(t, 1, Len(t) - 1)) ELSE t

\* str.strip()
strip(t) == rstrip(lstrip(t))

NoResponse == [status |-> 0, error |-> "", transcribed_text |-> <<>>, gloss |-> <<>>]

\* jsonify({"error": msg}), code
ErrorResponse(msg, code) ==
    [status |-> code, error |-> msg, transcribed_text |-> <<>>, gloss |-> <<>>]

\* jsonify({"transcribed_text": t, "gloss": g})   (status 200)
OkResponse(t, g) ==
    [status |-> 200, error |-> "", transcribed_text |-> t, gloss |-> g]

Return(r, resp) ==
    /\ response' = [response EXCEPT ![r] = resp]
    /\ pc' = [pc EXCEPT ![r] = "done"]

Call(r, name) == calls' = [calls EXCEPT ![r] = Append(@, name)]

\* lines 92-98: the checks on request.files['audio_data']
Receive(r) ==
    /\ pc[r] = "recv"
    /\ \E f \in {"missing", "empty_filename", "valid"} :
         /\ field' = [field EXCEPT ![r] = f]
         /\ CASE f = "missing" -> Return(r, ErrorResponse("No audio file part", 400))
              [] f = "empty_filename" -> Return(r, ErrorResponse("No selected file", 400))
              [] OTHER -> /\ pc' = [pc EXCEPT ![r] = "save"]
                          /\ UNCHANGED response
    /\ UNCHANGED <<nlp, whisper_model, file, heard, calls, transcribed_text, isl_gloss>>
    /\ UNCHANGED glossVars

\* lines 102-103: every request saves to temp_audio/temp_recording.webm
Save(r) ==
    /\ pc[r] = "save"
    /\ file' = r
    /\ Call(r, "save")
    /\ pc' = [pc EXCEPT ![r] = "transcribe"]
    /\ UNCHANGED <<nlp, whisper_model, field, heard, transcribed_text, isl_gloss, response>>
    /\ UNCHANGED glossVars

ModelReloadAttempt(r) ==
    /\ pc[r] = "transcribe"
    /\ ~whisper_model
    /\ whisper_model' = TRUE
    /\ UNCHANGED <<nlp, file, pc, field, heard, calls, transcribed_text, isl_gloss, response>>
    /\ UNCHANGED glossVars

\* lines 106-107
ModelNotLoaded(r) ==
    /\ pc[r] = "transcribe"
    /\ ~whisper_model
    /\ Return(r, ErrorResponse("Whisper model not loaded", 500))
    /\ UNCHANGED <<nlp, whisper_model, file, field, heard, calls, transcribed_text, isl_gloss>>
    /\ UNCHANGED glossVars

TranscribeNoShortCircuit(r) ==
    /\ pc[r] = "transcribe"
    /\ whisper_model
    /\ file # NoFile
    /\ \E raw \in Texts :
         /\ transcribed_text' = [transcribed_text EXCEPT ![r] = strip(raw)]
         /\ pc' = [pc EXCEPT ![r] = "translate"]
         /\ UNCHANGED response
    /\ heard' = [heard EXCEPT ![r] = file]
    /\ Call(r, "transcribe")
    /\ UNCHANGED <<nlp, whisper_model, file, field, isl_gloss>>
    /\ UNCHANGED glossVars

\* lines 109-113: transcribe the file at temp_path, strip, short-circuit on ""
Transcribe(r) ==
    /\ pc[r] = "transcribe"
    /\ whisper_model
    /\ file # NoFile
    /\ \E raw \in Texts :
         /\ transcribed_text' = [transcribed_text EXCEPT ![r] = strip(raw)]
         /\ IF strip(raw) = <<>>
            THEN Return(r, OkResponse(<<>>, <<>>))
            ELSE /\ pc' = [pc EXCEPT ![r] = "translate"]
                 /\ UNCHANGED response
    /\ heard' = [heard EXCEPT ![r] = file]
    /\ Call(r, "transcribe")
    /\ UNCHANGED <<nlp, whisper_model, file, field, isl_gloss>>
    /\ UNCHANGED glossVars

\* lines 109-110 raising (always when the file is gone), caught at 123-125
TranscribeRaises(r) ==
    /\ pc[r] = "transcribe"
    /\ whisper_model
    /\ Call(r, "transcribe")
    /\ Return(r, ErrorResponse(IF file = NoFile THEN "No such file" ELSE "transcription failed", 500))
    /\ UNCHANGED <<nlp, whisper_model, file, field, heard, transcribed_text, isl_gloss>>
    /\ UNCHANGED glossVars

\* line 116
Translate(r) ==
    /\ pc[r] = "translate"
    /\ \E d \in HandlerDocs :
         isl_gloss' = [isl_gloss EXCEPT ![r] = translate_to_isl_gloss(d)]
    /\ Call(r, "translate")
    /\ pc' = [pc EXCEPT ![r] = "remove"]
    /\ UNCHANGED <<nlp, whisper_model, file, field, heard, transcribed_text, response>>
    /\ UNCHANGED glossVars

\* line 116 with the annotator nlp(...) raising, caught at 123-125
TranslateRaises(r) ==
    /\ pc[r] = "translate"
    /\ nlp
    /\ Call(r, "translate")
    /\ Return(r, ErrorResponse("annotation failed", 500))
    /\ UNCHANGED <<nlp, whisper_model, file, field, heard, transcribed_text, isl_gloss>>
    /\ UNCHANGED glossVars

\* lines 119-121: os.remove(temp_path) raises when the file is gone
Remove(r) ==
    /\ pc[r] = "remove"
    /\ IF file = NoFile
       THEN /\ Return(r, ErrorResponse("No such file", 500))
            /\ UNCHANGED <<file, calls>>
       ELSE /\ file' = NoFile
            /\ Call(r, "remove")
            /\ Return(r, OkResponse(transcribed_text[r], isl_gloss[r]))
    /\ UNCHANGED <<nlp, whisper_model, field, heard, transcribed_text, isl_gloss>>
    /\ UNCHANGED glossVars

HandlerIdle ==
    /\ file = NoFile
    /\ pc = [r \in Requests |-> "recv"]
    /\ field = [r \in Requests |-> "unset"]
    /\ heard = [r \in Requests |-> NoFile]
    /\ calls = [r \in Requests |-> <<>>]
    /\ transcribed_text = [r \in Requests |-> <<>>]
    /\ isl_gloss = [r \in Requests |-> <<>>]
    /\ response = [r \in Requests |-> NoResponse]

Init ==
    /\ nlp \in BOOLEAN
    /\ whisper_model \in BOOLEAN
    /\ HandlerIdle
    /\ doc = <<>>
    /\ gloss = <<>>
    /\ final_gloss = <<>>
    /\ g_pc = "unused"

Next ==
    \E r \in Requests :
        \/ Receive(r)
        \/ Save(r)
        \/ ModelNotLoaded(r)
        \/ Transcribe(r)
        \/ TranscribeRaises(r)
        \/ Translate(r)
        \/ TranslateRaises(r)
        \/ Remove(r)

Spec == Init /\ [][Next]_vars

\* --------------------------------------------------------- SpecGloss
InitGloss ==
    /\ nlp \in BOOLEAN
    /\ whisper_model = TRUE
    /\ HandlerIdle
    /\ doc \in TokenSeqs
    /\ gloss = <<>>
    /\ final_gloss = <<>>
    /\ g_pc = "call"

\* one call translate_to_isl_gloss(text) whose nlp(...) returned doc
TranslateCall ==
    /\ g_pc = "call"
    /\ gloss' = IF nlp THEN GlossLoop(doc, 1, <<>>) ELSE <<>>
    /\ final_gloss' = translate_to_isl_gloss(doc)
    /\ g_pc' = "returned"
    /\ UNCHANGED <<nlp, whisper_model, doc>>
    /\ UNCHANGED handlerVars

NextGloss == TranslateCall

SpecGloss == InitGloss /\ [][NextGloss]_vars

\* ================================================================ claims
Range(q) == { q[i] : i \in 1..Len(q) }
Called(r, name) == name \in Range(calls[r])
Returned == g_pc = "returned" /\ nlp

AcceptedPos == {"NOUN", "PROPN", "VERB", "ADJ", "INTJ", "PRON", "ADV"}
SynonymKeys == {"FOOD", "HOME", "MINE", "MYSELF", "HEY", "HI"}
IsNeg(t) == t.dep_ = "neg"
YieldsEntry(t) == IsNeg(t) \/ (t.pos_ \in AcceptedPos /\ t.lemma_ # "be")
Yielding(d) == { j \in 1..Len(d) : YieldsEntry(d[j]) }
NoEntry(d) == Yielding(d) = {}

\* C1: every request that saved its temporary audio file and has finished
\* has deleted it, whatever the outcome after the save.
C1_TempFileDeleted ==
    \A r \in Requests :
        (pc[r] = "done" /\ Called(r, "save")) => Called(r, "remove")

\* C2: with nlp not loaded, a request whose text reached
\* translate_to_isl_gloss ends with status 500 and an error message.
C2_NlpUnavailableIs500 ==
    \A r \in Requests :
        (~nlp /\ pc[r] = "done" /\ Called(r, "translate"))
            => (response[r].status = 500 /\ response[r].error # "")

\* C3: the returned gloss is the raw gloss (filter output, or the fallback
\* when the filter output is empty) with each token looked up once in the
\* synonym table, so no returned token is a key of the table.
C3_ReturnedGlossNormalized ==
    Returned =>
        LET raw == IF gloss # <<>> THEN gloss
                   ELSE [i \in 1..Len(SelectSeq(doc, LAMBDA t : ~t.is_punct)) |->
                            upper(SelectSeq(doc, LAMBDA t : ~t.is_punct)[i].text)]
        IN  /\ Len(final_gloss) = Len(raw)
            /\ \A i \in 1..Len(raw) :
                 final_gloss[i] = IF raw[i] \in SynonymKeys
                                  THEN isl_synonym_map[raw[i]] ELSE raw[i]
            /\ \A i \in 1..Len(final_gloss) : final_gloss[i] \notin SynonymKeys

\* C4: each negation-modifier token contributes exactly one "NOT", placed
\* after the entries of the entry-yielding tokens before it, in the raw and
\* in the normalized gloss; with k negation tokens there are k such entries
\* and the gloss has one entry per entry-yielding token.
C4_NegationInPlace ==
    (Returned /\ \E i \in 1..Len(doc) : IsNeg(doc[i])) =>
        /\ Len(gloss) = Cardinality(Yielding(doc))
        /\ Len(final_gloss) = Cardinality(Yielding(doc))
        /\ \A i \in 1..Len(doc) :
             IsNeg(doc[i]) =>
                LET p == Cardinality({ j \in Yielding(doc) : j < i }) + 1
                IN  gloss[p] = "NOT" /\ final_gloss[p] = "NOT"

C4_Witness ==
    /\ Returned
    /\ Cardinality({ i \in 1..Len(doc) : IsNeg(doc[i]) }) >= 2
    /\ \E i \in 1..Len(doc) : ~IsNeg(doc[i]) /\ YieldsEntry(doc[i])
    /\ \E i \in 1..Len(doc) : IsNeg(doc[i]) /\ doc[i].pos_ \in AcceptedPos
    /\ Cardinality({ p \in 1..Len(final_gloss) : final_gloss[p] = "NOT" }) >= 2

\* C5: with nlp loaded, a sequence holding a token of accepted part of
\* speech whose lemma is not "be" gives a non-empty result.
C5_ContentWordNonEmpty ==
    (Returned /\ \E i \in 1..Len(doc) :
                    doc[i].pos_ \in AcceptedPos /\ doc[i].lemma_ # "be")
        => final_gloss # <<>>

C5_Witness ==
    /\ Returned
    /\ \E i \in 1..Len(doc) : doc[i].pos_ \in AcceptedPos /\ doc[i].lemma_ # "be"
    /\ \A i \in 1..Len(doc) : doc[i].is_punct
    /\ final_gloss # <<>>

\* C6: when no token yields an entry, the result is the upper-case text of
\* the non-punctuation tokens in order; it is empty for the empty sequence
\* and for a sequence of punctuation tokens only.
C6_FallbackSurfaceText ==
    (Returned /\ NoEntry(doc)) =>
        LET words == SelectSeq(doc, LAMBDA t : ~t.is_punct)
        IN  /\ final_gloss = [i \in 1..Len(words) |-> upper(words[i].text)]
            /\ (\A i \in 1..Len(doc) : doc[i].is_punct) => final_gloss = <<>>

C6_Witness ==
    /\ Returned
    /\ NoEntry(doc)
    /\ \E i \in 1..Len(doc) : doc[i].is_punct
    /\ \E i \in 1..Len(doc) : ~doc[i].is_punct /\ doc[i].text # doc[i].lemma_
    /\ final_gloss # <<>>
    /\ Len(final_gloss) < Len(doc)

Image(t) ==
    CASE t.dep_ = "neg" -> <<"NOT">>
      [] t.dep_ # "neg" /\ t.pos_ \in AcceptedPos /\ t.lemma_ = "be" -> <<>>
      [] t.dep_ # "neg" /\ t.pos_ \in AcceptedPos /\ t.lemma_ # "be" /\ t.text = "dont"
            -> <<"NOT">>
      [] t.dep_ # "neg" /\ t.pos_ \in AcceptedPos /\ t.lemma_ # "be" /\ t.text # "dont"
            -> <<upper(t.lemma_)>>
      [] OTHER -> <<>>

RECURSIVE Images(_)
Images(d) == IF d = <<>> THEN <<>> ELSE Image(Head(d)) \o Images(Tail(d))

\* C7: a non-empty raw gloss is the in-order concatenation of the tokens'
\* images (negation -> NOT; accepted and "be" -> nothing; accepted and
\* "dont" -> NOT; accepted -> upper-case lemma; else nothing); the stop-word
\* flag plays no part and the order of the tokens is kept.
C7_RawGlossIsImages ==
    (Returned /\ gloss # <<>>) => gloss = Images(doc)

C7_Witness ==
    /\ Returned
    /\ Len(doc) = 3
    /\ doc[1].pos_ = "PRON" /\ doc[1].is_stop
    /\ doc[2].pos_ = "VERB" /\ doc[3].pos_ = "NOUN"
    /\ gloss = <<"I", "EAT", "FOOD">>

\* C8: translate_to_isl_gloss is only called after transcribe, and a
\* transcription that is empty after strip() ends the request at once with
\* transcribed_text "" and gloss [], without a call of the mapper.
C8_EmptyTranscriptionShortCircuit ==
    \A r \in Requests :
        /\ \A j \in 1..Len(calls[r]) :
             calls[r][j] = "translate" =>
                \E i \in 1..(j - 1) : calls[r][i] = "transcribe"
        /\ (heard[r] # NoFile /\ transcribed_text[r] = <<>>) =>
             /\ pc[r] = "done"
             /\ response[r] = OkResponse(<<>>, <<>>)
             /\ ~Called(r, "translate")

C8_Witness ==
    \E r \in Requests :
        /\ heard[r] # NoFile
        /\ transcribed_text[r] = <<>>
        /\ pc[r] = "done"
        /\ response[r].status = 200

\* C9: with whisper_model not loaded, a request with a valid audio field
\* never calls transcribe or the mapper and ends with status 500 and an
\* error message; whisper_model never changes after startup.
C9_WhisperUnavailableCached ==
    /\ [](\A r \in Requests :
            (~whisper_model /\ field[r] = "valid") =>
                /\ ~Called(r, "transcribe")
                /\ ~Called(r, "translate")
                /\ pc[r] = "done" =>
                     (response[r].status = 500 /\ response[r].error # ""))
    /\ [][whisper_model' = whisper_model]_vars

C9_Witness ==
    /\ ~whisper_model
    /\ \E r \in Requests :
         /\ field[r] = "valid"
         /\ Called(r, "save")
         /\ pc[r] = "done"
         /\ response[r] = ErrorResponse("Whisper model not loaded", 500)

\* C10: between a request's save and the end of its transcription the
\* temporary file is the one it saved, each request transcribes its own
\* audio, and no request fails because the file is already gone.
C10_ArtifactPerRequest ==
    \A r \in Requests :
        /\ pc[r] = "transcribe" => file = r
        /\ heard[r] \in {NoFile, r}
        /\ response[r].error # "No such file"

====
